---- MODULE Spec2Model ----
(***************************************************************************)
(* A model of nenad/pinger: the History ring buffer and the ping Manager   *)
(* of package ping (src/internal/config/config.go, lines 88-388), and the  *)
(* icon of package icon (src/internal/icon/icon.go, src/README.md).        *)
(*                                                                         *)
(*   SpecHistory : one History shared by a task calling Add and a task     *)
(*                 calling Latest/Snapshot, every statement a step.        *)
(*   SpecManager : the Manager as the tray application drives it: one      *)
(*                 Start, then Restart and Stop calls, the polling loops   *)
(*                 they launch, and the consumer of Results().             *)
(*   SpecRestart, SpecConfig, SpecLoopFair : the Manager with Restart      *)
(*                 called at a quiet moment, with its settings changed,    *)
(*                 and with its one loop scheduled fairly.                 *)
(*   SpecInFlight: SpecRestart with a clock and a caller of IsInFlight.    *)
(*   SpecIcon    : the Historys handed to Render and what it draws.        *)
(*   SpecFrame   : SpecConfig with Restart called as well.                 *)
(*   SpecTray    : the tray's click handlers (src/internal/ui/tray.go)     *)
(*                 changing the target and the mode, each in a goroutine.  *)
(*   SpecLocks   : one loop and two goroutines of the tray, every lock     *)
(*                 operation on Manager.mu and History.mu a step.          *)
(*   SpecOffer   : the loop of SpecLocks and the consumer of Results().    *)
(*                                                                         *)
(* Time is not measured.  A loop's ticker may have a tick ready whenever   *)
(* the loop comes to its select, a probe may return at any moment, and     *)
(* time.Sleep may return at any moment, unless a specification says more.  *)
(***************************************************************************)
EXTENDS Integers, Sequences, FiniteSets, TLC

VARIABLES
    history,   \* the History object: buffer, capacity, nextIdx, size, mu
    added,     \* ghost: every sample passed to Add, in the order Add stored them
    tasks,     \* SpecHistory: the tasks calling Add / Latest / Snapshot
    mgr,       \* the Manager's fields target, probeMode, inFlight, inFlightStart, cancel
    resultCh,  \* the Manager's result channel: the samples buffered in it
    loops,     \* the goroutines running Manager.loop, with their locals
    cancelled, \* the loops whose context has been cancelled
    restart,   \* where the caller of Restart is: "idle" or "sleep"
    now,       \* the monotonic clock that time.Now and time.Since read
    obs,       \* the caller of IsInFlight: what its last two calls returned
    icon,      \* what the last call of Render drew
    handlers,  \* SpecTray: the tray's click handlers, with their locals
    cfg,       \* SpecTray: the TrayApp's Config object, a.cfg
    procs      \* SpecLocks, SpecOffer: Manager.mu and the goroutines taking the locks

trayVars == <<handlers, cfg, procs>>
mgrVars == <<mgr, resultCh, loops, cancelled, restart, now, obs, icon, trayVars>>
vars == <<history, added, tasks, mgr, resultCh, loops, cancelled, restart, now, obs, icon,
          handlers, cfg, procs>>

(***************************************************************************)
(* Bounds.                                                                 *)
(***************************************************************************)
\* History capacities 1..MaxCap are constructed.
MaxCap == 3
\* Add is called at most MaxAdds times in SpecHistory.
MaxAdds == 4

Min(a, b) == IF a < b THEN a ELSE b
Max(a, b) == IF a > b THEN a ELSE b

(***************************************************************************)
(* Sample (config.go 101-107).  Timestamps are not modelled: no operation  *)
(* of History or Manager reads them.  Latency is in milliseconds.          *)
(***************************************************************************)
Sample(latency, failed, description) ==
    [Latency |-> latency, Failed |-> failed, Description |-> description]

\* The zero value of Sample, what make([]Sample, capacity) fills the buffer with.
ZeroSample == Sample(0, FALSE, "")

\* The samples handed to Add in SpecHistory.
SampleInputs ==
    {Sample(20, FALSE, "ok"), Sample(150, FALSE, "ok"), Sample(0, TRUE, "timeout")}

\* The arguments n handed to Latest.
NArgs == (0 - 1) .. (MaxCap + 1)

(***************************************************************************)
(* sync.RWMutex: one writer, or any number of readers.                     *)
(***************************************************************************)
NewRWMutex == [writer |-> FALSE, readers |-> 0]

\* A mutant: Lock that does not wait for the readers or the writer.
CanLockNoExclusion(mu) == TRUE

CanLock(mu) == ~mu.writer /\ mu.readers = 0

CanRLock(mu) == ~mu.writer

(***************************************************************************)
(* History (config.go 110-166).                                            *)
(***************************************************************************)
NewHistory(cap) ==
    LET c == IF cap <= 0 THEN 60 ELSE cap
    IN  [buffer   |-> [i \in 0 .. c - 1 |-> ZeroSample],
         capacity |-> c,
         nextIdx  |-> 0,
         size     |-> 0,
         mu       |-> NewRWMutex]

\* A mutant: the write cursor stays where it is.
AddAdvanceStay(h) == h

\* Add's three assignments, lines 131-135.
AddStore(h, sample) == [h EXCEPT !.buffer[h.nextIdx] = sample]

AddAdvance(h) == [h EXCEPT !.nextIdx = (h.nextIdx + 1) % h.capacity]

AddGrow(h) == IF h.size < h.capacity THEN [h EXCEPT !.size = h.size + 1] ELSE h

\* The whole of Add's critical section.
AddBody(h, sample) == AddGrow(AddAdvance(AddStore(h, sample)))

\* A mutant: Latest that leaves an n above size as it is.
LatestClampNoUpper(h, n) == IF n <= 0 THEN h.size ELSE n

\* Latest, line 142-144: the n it works with.
LatestClamp(h, n) == IF n <= 0 \/ n > h.size THEN h.size ELSE n

\* Latest, line 147: the index of the last added sample.
LatestStart(h) == (h.nextIdx - 1 + h.capacity) % h.capacity

\* A mutant: Latest that walks forward.
LatestPrevForward(h, idx) == (idx + 1) % h.capacity

\* Latest, line 150.
LatestPrev(h, idx) == (idx - 1 + h.capacity) % h.capacity

\* Latest's loop, lines 148-151, from iteration i on.
RECURSIVE LatestLoop(_, _, _, _, _)
LatestLoop(h, n, i, idx, out) ==
    IF i < n
    THEN LatestLoop(h, n, i + 1, LatestPrev(h, idx), Append(out, h.buffer[idx]))
    ELSE out

\* Latest(n) run to its end in one piece (the read lock held throughout).
Latest(h, n) == LatestLoop(h, LatestClamp(h, n), 0, LatestStart(h), <<>>)

\* A mutant: Snapshot that starts at the write cursor.
SnapshotStartAtCursor(h) == h.nextIdx % h.capacity

\* Snapshot, line 160.
SnapshotStart(h) == (h.nextIdx - h.size + h.capacity) % h.capacity

\* Snapshot's loop, lines 161-164, from iteration i on.
RECURSIVE SnapshotLoop(_, _, _, _)
SnapshotLoop(h, start, i, out) ==
    IF i < h.size
    THEN SnapshotLoop(h, start, i + 1, Append(out, h.buffer[(start + i) % h.capacity]))
    ELSE out

\* Snapshot() run to its end in one piece.
Snapshot(h) == SnapshotLoop(h, SnapshotStart(h), 0, <<>>)

(***************************************************************************)
(* Sequence helpers the properties are stated with.                        *)
(***************************************************************************)
Reverse(s) == [i \in 1 .. Len(s) |-> s[Len(s) + 1 - i]]

\* The last k elements of s: none for k <= 0, all of s for k >= Len(s).
LastK(s, k) ==
    LET m == Min(Max(k, 0), Len(s))
    IN  SubSeq(s, Len(s) - m + 1, Len(s))

(***************************************************************************)
(* Manager (config.go 168-202).  The interval and the timeout are not      *)
(* fields of the model: time is not measured.  cancel is 0 for nil, and    *)
(* otherwise the loop whose context it cancels.                            *)
(***************************************************************************)
\* At most MaxLoops loops are alive at a time: Start waits for a free slot.
MaxLoops == 2
\* The clock runs from 0 to MaxNow.
MaxNow == 2
\* The buffer of the result channel.  The code's is 100 (config.go 200); the
\* model's is small, so that a full channel is reached.
ResultChCap == 1

LoopIds == 1 .. MaxLoops

Targets == {"1.1.1.1", "8.8.8.8"}
Modes == {"ICMP", "HTTP"}

\* A nil error.
Nil == "<nil>"

\* The errors a probe returns: a timeout or an unreachable host, and what
\* DialContext returns when its context is cancelled.
ErrTimeout == "i/o timeout"
ErrCanceled == "operation was canceled"

\* The latency, in milliseconds, of a probe that succeeds.
ProbeLatencies == {20}

NewManager(target, probeMode) ==
    [target    |-> IF target = "" THEN "1.1.1.1" ELSE target,
     probeMode |-> IF probeMode \notin Modes THEN "ICMP" ELSE probeMode,
     inFlight  |-> FALSE,
     inFlightStart |-> 0,
     cancel    |-> 0]

\* A mutant: markInFlight(false) leaves the flag as it is.
markInFlightNoClear(m, start, t) ==
    IF start THEN [m EXCEPT !.inFlight = TRUE, !.inFlightStart = t] ELSE m

\* markInFlight, lines 250-259, called at time t.
markInFlight(m, start, t) ==
    IF start
    THEN [m EXCEPT !.inFlight = TRUE, !.inFlightStart = t]
    ELSE [m EXCEPT !.inFlight = FALSE]

\* IsInFlight, lines 241-248, called at time t: the pair it returns.
IsInFlight(m, t) ==
    IF ~m.inFlight
    THEN [flag |-> FALSE, elapsed |-> 0]
    ELSE [flag |-> TRUE, elapsed |-> t - m.inFlightStart]

\* The caller of IsInFlight before its first call: cur and prev are what its
\* last call and the one before returned.  held and holding are ghosts: the
\* flag was true all the time between the two calls, and has been true all
\* the time since the last call.
NoCalls ==
    [cur |-> [flag |-> FALSE, elapsed |-> 0], prev |-> [flag |-> FALSE, elapsed |-> 0],
     held |-> FALSE, holding |-> FALSE]

\* Outside SpecTray and SpecLocks: no tray, no Config object, no caller.
NoHandlers == <<>>
NoConfig == [Target |-> "", ProbeMode |-> ""]
NoProcs == <<>>

\* No icon has been rendered.
NoIcon == [rendered |-> FALSE]

\* The historyCapacity handed to NewManager.
ManagerCapacities == {1}

\* A slot no loop runs in, and the locals of Manager.loop and doPing.
NoLoop ==
    [pc |-> "none", mode |-> "", target |-> "",
     sample |-> ZeroSample, err |-> Nil, rec |-> ZeroSample, appended |-> 0,
     startTarget |-> "", startMode |-> ""]

\* Loop record lp at pc, its locals dead.  startTarget and startMode are ghosts:
\* the Manager's target and mode when Start launched the loop.
At(lp, pc) ==
    [NoLoop EXCEPT !.pc = pc, !.startTarget = lp.startTarget, !.startMode = lp.startMode]

Alive(l) == loops[l].pc \notin {"none", "exited"}

\* What doICMPPing (317-347) returns: pinger.Run() is not given the context, so
\* a cancelled context changes nothing.
ICMPOutcomes ==
    {[sample |-> Sample(ms, FALSE, "ok"), err |-> Nil] : ms \in ProbeLatencies}
        \cup {[sample |-> ZeroSample, err |-> ErrTimeout]}

\* What doHTTPProbe (349-371) returns: DialContext fails once ctx is cancelled.
HTTPOutcomes(ctxDone) ==
    IF ctxDone
    THEN {[sample |-> ZeroSample, err |-> ErrCanceled]}
    ELSE {[sample |-> Sample(ms, FALSE, "ok"), err |-> Nil] : ms \in ProbeLatencies}
             \cup {[sample |-> ZeroSample, err |-> ErrTimeout]}

\* doPing, lines 298-302.
ProbeOutcomes(mode, ctxDone) ==
    IF mode = "HTTP" THEN HTTPOutcomes(ctxDone) ELSE ICMPOutcomes

\* emitFailure, lines 374-382: the sample it makes of an error.
FailureSample(err) == Sample(0, TRUE, IF err = Nil THEN "ping failed" ELSE err)

\* A mutant: a send that makes room in a full channel by dropping its oldest sample.
TrySendDropOldest(ch, sample) ==
    IF Len(ch) < ResultChCap THEN Append(ch, sample) ELSE Append(Tail(ch), sample)

\* The non-blocking send of lines 310-314 and 384-387.
TrySend(ch, sample) == IF Len(ch) < ResultChCap THEN Append(ch, sample) ELSE ch

\* A mutant: the loop's select finds ctx.Done() ready whatever the context.
CtxDoneAlways(l) == TRUE

\* A mutant: the loop's select never finds ctx.Done() ready.
CtxDoneNever(l) == FALSE

\* Line 280: ctx.Done() is ready.
CtxDone(l) == l \in cancelled

(***************************************************************************)
(* SpecHistory: the tasks.  "adder" calls Add; the readers call Latest and *)
(* Snapshot.  A task's record holds its program counter and its locals.    *)
(***************************************************************************)
Readers == {"reader1"}
HTasks == {"adder"} \cup Readers

IdleTask ==
    [pc |-> "idle", op |-> "none", arg |-> 0, sample |-> ZeroSample,
     n |-> 0, idx |-> 0, i |-> 0, out |-> <<>>, lo |-> 0]

InitHistory ==
    /\ \E cap \in 1 .. MaxCap : history = NewHistory(cap)
    /\ added = <<>>
    /\ tasks = [t \in HTasks |-> IdleTask]
    /\ mgr = NewManager("1.1.1.1", "ICMP")
    /\ resultCh = <<>>
    /\ loops = [l \in LoopIds |-> NoLoop]
    /\ cancelled = {}
    /\ restart = "idle"
    /\ now = 0
    /\ obs = NoCalls
    /\ icon = NoIcon
    /\ handlers = NoHandlers
    /\ cfg = NoConfig
    /\ procs = NoProcs

\* Add, line 129: h.mu.Lock().
AddLock ==
    /\ tasks["adder"].pc = "idle"
    /\ Len(added) < MaxAdds
    /\ CanLock(history.mu)
    /\ \E s \in SampleInputs :
         tasks' = [tasks EXCEPT !["adder"] = [@ EXCEPT !.pc = "store", !.op = "Add", !.sample = s]]
    /\ history' = [history EXCEPT !.mu.writer = TRUE]
    /\ UNCHANGED <<added, mgrVars>>

\* Add, line 131.
AddStoreStep ==
    /\ tasks["adder"].pc = "store"
    /\ history' = AddStore(history, tasks["adder"].sample)
    /\ added' = Append(added, tasks["adder"].sample)
    /\ tasks' = [tasks EXCEPT !["adder"].pc = "advance"]
    /\ UNCHANGED mgrVars

\* Add, line 132.
AddAdvanceStep ==
    /\ tasks["adder"].pc = "advance"
    /\ history' = AddAdvance(history)
    /\ tasks' = [tasks EXCEPT !["adder"].pc = "grow"]
    /\ UNCHANGED <<added, mgrVars>>

\* Add, lines 133-135.
AddGrowStep ==
    /\ tasks["adder"].pc = "grow"
    /\ history' = AddGrow(history)
    /\ tasks' = [tasks EXCEPT !["adder"].pc = "unlock"]
    /\ UNCHANGED <<added, mgrVars>>

\* Add's deferred h.mu.Unlock().
AddUnlock ==
    /\ tasks["adder"].pc = "unlock"
    /\ history' = [history EXCEPT !.mu.writer = FALSE]
    /\ tasks' = [tasks EXCEPT !["adder"] = IdleTask]
    /\ UNCHANGED <<added, mgrVars>>

\* Latest(n), line 140, or Snapshot(), line 157: h.mu.RLock().
ReadRLock(t) ==
    /\ tasks[t].pc = "idle"
    /\ CanRLock(history.mu)
    /\ \E op \in {"Latest", "Snapshot"} : \E n \in NArgs :
         /\ op = "Snapshot" => n = 0
         /\ tasks' = [tasks EXCEPT ![t] =
                [@ EXCEPT !.pc = "setup", !.op = op, !.arg = n, !.lo = Len(added)]]
    /\ history' = [history EXCEPT !.mu.readers = @ + 1]
    /\ UNCHANGED <<added, mgrVars>>

\* Latest, lines 142-147, or Snapshot, lines 159-160: n and the first index.
ReadSetup(t) ==
    /\ tasks[t].pc = "setup"
    /\ tasks' = [tasks EXCEPT ![t] =
           IF tasks[t].op = "Latest"
           THEN [@ EXCEPT !.pc = "loop", !.n = LatestClamp(history, tasks[t].arg),
                          !.idx = LatestStart(history), !.i = 0, !.out = <<>>]
           ELSE [@ EXCEPT !.pc = "loop", !.n = history.size,
                          !.idx = SnapshotStart(history), !.i = 0, !.out = <<>>]]
    /\ UNCHANGED <<history, added, mgrVars>>

\* One iteration of Latest's loop (149-150) or of Snapshot's (162-163; idx holds start).
ReadLoop(t) ==
    LET me == tasks[t]
    IN  /\ me.pc = "loop"
        /\ tasks' = [tasks EXCEPT ![t] =
               IF me.op = "Latest"
               THEN IF me.i < me.n
                    THEN [me EXCEPT !.out = Append(me.out, history.buffer[me.idx]),
                                    !.idx = LatestPrev(history, me.idx),
                                    !.i = me.i + 1]
                    ELSE [me EXCEPT !.pc = "runlock"]
               ELSE IF me.i < history.size
                    THEN [me EXCEPT !.out = Append(me.out,
                                        history.buffer[(me.idx + me.i) % history.capacity]),
                                    !.i = me.i + 1]
                    ELSE [me EXCEPT !.pc = "runlock"]]
        /\ UNCHANGED <<history, added, mgrVars>>

\* The deferred h.mu.RUnlock(): the call has its result.
ReadRUnlock(t) ==
    /\ tasks[t].pc = "runlock"
    /\ history' = [history EXCEPT !.mu.readers = @ - 1]
    /\ tasks' = [tasks EXCEPT ![t].pc = "returned"]
    /\ UNCHANGED <<added, mgrVars>>

\* The caller takes the result.
ReadReturn(t) ==
    /\ tasks[t].pc = "returned"
    /\ tasks' = [tasks EXCEPT ![t] = IdleTask]
    /\ UNCHANGED <<history, added, mgrVars>>

NextHistory ==
    \/ AddLock
    \/ AddStoreStep
    \/ AddAdvanceStep
    \/ AddGrowStep
    \/ AddUnlock
    \/ \E t \in Readers : ReadRLock(t)
    \/ \E t \in Readers : ReadSetup(t)
    \/ \E t \in Readers : ReadLoop(t)
    \/ \E t \in Readers : ReadRUnlock(t)
    \/ \E t \in Readers : ReadReturn(t)

SpecHistory == InitHistory /\ [][NextHistory]_vars

(***************************************************************************)
(* Manager: Start, Stop, Restart and the polling loop (config.go 235-388). *)
(* History.Add is one step here: its lock makes it atomic (SpecHistory).   *)
(***************************************************************************)
InitManager ==
    /\ \E cap \in ManagerCapacities : history = NewHistory(cap)
    /\ added = <<>>
    /\ tasks = [t \in HTasks |-> IdleTask]
    /\ \E mode \in Modes : mgr = NewManager("1.1.1.1", mode)
    /\ resultCh = <<>>
    /\ loops = [l \in LoopIds |-> NoLoop]
    /\ cancelled = {}
    /\ restart = "idle"
    /\ now = 0
    /\ obs = NoCalls
    /\ icon = NoIcon
    /\ handlers = NoHandlers
    /\ cfg = NoConfig
    /\ procs = NoProcs

\* The slot the next loop runs in.
FreeSlots == {l \in LoopIds : ~Alive(l)}
FreeSlot == CHOOSE l \in FreeSlots : \A k \in FreeSlots : l <= k

\* Start, lines 261-265: a fresh context, m.cancel = cancel, go m.loop(ctx).
StartCall ==
    /\ FreeSlots # {}
    /\ loops' = [loops EXCEPT ![FreeSlot] =
           [NoLoop EXCEPT !.pc = "entry", !.startTarget = mgr.target,
                          !.startMode = mgr.probeMode]]
    /\ cancelled' = cancelled \ {FreeSlot}
    /\ mgr' = [mgr EXCEPT !.cancel = FreeSlot]
    /\ UNCHANGED <<history, resultCh>>

\* A mutant: a Stop that cancels the context again takes the cancellation back.
CancelledAfterStopToggle(m, c) ==
    IF m.cancel = 0 THEN c
    ELSE IF m.cancel \in c THEN c \ {m.cancel} ELSE c \cup {m.cancel}

\* Stop, lines 267-271: the cancelled contexts after Stop, those in c being
\* cancelled before.  A nil m.cancel is not called, and a CancelFunc called
\* again does nothing.
CancelledAfterStop(m, c) == IF m.cancel # 0 THEN c \cup {m.cancel} ELSE c

\* Stop, lines 267-271.
StopCall ==
    /\ cancelled' = CancelledAfterStop(mgr, cancelled)
    /\ UNCHANGED <<mgr, loops, history, resultCh>>

\* TrayApp.onReady, tray.go line 40: the application's one call of Start.
AppStart ==
    /\ mgr.cancel = 0
    /\ StartCall
    /\ UNCHANGED <<restart, added, tasks, now, obs, icon, trayVars>>

\* Stop called from outside Restart (TrayApp.onExit, tray.go line 125).
Stop ==
    /\ StopCall
    /\ UNCHANGED <<restart, added, tasks, now, obs, icon, trayVars>>

\* Restart, line 236: m.Stop(), and then the caller sleeps.
RestartStop ==
    /\ restart = "idle"
    /\ StopCall
    /\ restart' = "sleep"
    /\ UNCHANGED <<added, tasks, now, obs, icon, trayVars>>

\* Restart, lines 237-238: the sleep is over, m.Start().
RestartStart ==
    /\ restart = "sleep"
    /\ StartCall
    /\ restart' = "idle"
    /\ UNCHANGED <<added, tasks, now, obs, icon, trayVars>>

\* loop, lines 274-277, into doPing, line 289: the ticker is made and the first
\* cycle begins with markInFlight(true), whatever the state of ctx.
LoopEntry(l) ==
    /\ loops[l].pc = "entry"
    /\ loops' = [loops EXCEPT ![l] = At(loops[l], "mode")]
    /\ mgr' = markInFlight(mgr, TRUE, now)
    /\ UNCHANGED <<history, resultCh, cancelled, restart, added, tasks, now, obs, icon, trayVars>>

\* doPing, line 292: mode := m.ProbeMode().
LoopReadMode(l) ==
    /\ loops[l].pc = "mode"
    /\ loops' = [loops EXCEPT ![l].pc = "target", ![l].mode = mgr.probeMode]
    /\ UNCHANGED <<mgr, history, resultCh, cancelled, restart, added, tasks, now, obs, icon, trayVars>>

\* doPing, line 293: target := m.Target(); the probe is then under way.
LoopReadTarget(l) ==
    /\ loops[l].pc = "target"
    /\ loops' = [loops EXCEPT ![l].pc = "probe", ![l].target = mgr.target]
    /\ UNCHANGED <<mgr, history, resultCh, cancelled, restart, added, tasks, now, obs, icon, trayVars>>

\* doPing, lines 298-302: the probe returns sample and err.
LoopProbeReturn(l) ==
    /\ loops[l].pc = "probe"
    /\ \E o \in ProbeOutcomes(loops[l].mode, l \in cancelled) :
         loops' = [loops EXCEPT ![l].pc = "record", ![l].sample = o.sample, ![l].err = o.err]
    /\ UNCHANGED <<mgr, history, resultCh, cancelled, restart, added, tasks, now, obs, icon, trayVars>>

\* A mutant: a failed probe is not recorded.
RecordedDropFailure(sample, err) == IF err # Nil THEN <<>> ELSE <<sample>>

\* doPing, lines 304-309, with emitFailure, lines 373-383: the samples handed to
\* History.Add after a probe that returned sample and err.
Recorded(sample, err) == IF err # Nil THEN <<FailureSample(err)>> ELSE <<sample>>

RECURSIVE AddAll(_, _)
AddAll(h, samples) ==
    IF samples = <<>> THEN h ELSE AddAll(AddBody(h, Head(samples)), Tail(samples))

\* doPing, lines 304-309: m.history.Add of the probe's sample, or of emitFailure's.
LoopRecord(l) ==
    LET recs == Recorded(loops[l].sample, loops[l].err)
    IN  /\ loops[l].pc = "record"
        /\ history' = AddAll(history, recs)
        /\ loops' = [loops EXCEPT ![l].pc = "send",
                                  ![l].rec = IF recs = <<>> THEN ZeroSample ELSE recs[Len(recs)],
                                  ![l].appended = Len(recs)]
        /\ UNCHANGED <<mgr, resultCh, cancelled, restart, added, tasks, now, obs, icon, trayVars>>

\* doPing, lines 310-314, or emitFailure, lines 384-387: the non-blocking send.
LoopSend(l) ==
    /\ loops[l].pc = "send"
    /\ resultCh' = IF loops[l].appended = 0 THEN resultCh ELSE TrySend(resultCh, loops[l].rec)
    /\ loops' = [loops EXCEPT ![l] = [At(loops[l], "unmark") EXCEPT !.appended = loops[l].appended]]
    /\ UNCHANGED <<mgr, history, cancelled, restart, added, tasks, now, obs, icon, trayVars>>

\* A mutant: the loop begins its next cycle without waiting at the select.
AfterDoPingNoWait(lp) == At(lp, "mode")

\* loop, lines 277-279 and 283-284: doPing has returned, the loop is at its select.
AfterDoPing(lp) == At(lp, "select")

\* doPing's deferred markInFlight(false): the cycle is over, the loop is at its select.
LoopUnmark(l) ==
    /\ loops[l].pc = "unmark"
    /\ mgr' = markInFlight(mgr, FALSE, now)
    /\ loops' = [loops EXCEPT ![l] = AfterDoPing(loops[l])]
    /\ obs' = [obs EXCEPT !.holding = FALSE]
    /\ UNCHANGED <<history, resultCh, cancelled, restart, added, tasks, now, icon, trayVars>>

\* loop, lines 280-281: the select takes ctx.Done(); the deferred ticker.Stop().
LoopExit(l) ==
    /\ loops[l].pc = "select"
    /\ CtxDone(l)
    /\ loops' = [loops EXCEPT ![l] = At(loops[l], "exited")]
    /\ UNCHANGED <<mgr, history, resultCh, cancelled, restart, added, tasks, now, obs, icon, trayVars>>

\* loop, lines 282-283, into doPing, line 289: a tick is ready on ticker.C (the
\* ticker may have sent it at any moment since the last one was taken), the
\* select takes it and the next cycle begins.  With ctx.Done() ready too, Go's
\* select takes either.
LoopTick(l) ==
    /\ loops[l].pc = "select"
    /\ loops' = [loops EXCEPT ![l] = At(loops[l], "mode")]
    /\ mgr' = markInFlight(mgr, TRUE, now)
    /\ UNCHANGED <<history, resultCh, cancelled, restart, added, tasks, now, obs, icon, trayVars>>

\* The steps of loop l.
LoopStep(l) ==
    \/ LoopEntry(l)
    \/ LoopReadMode(l)
    \/ LoopReadTarget(l)
    \/ LoopProbeReturn(l)
    \/ LoopRecord(l)
    \/ LoopSend(l)
    \/ LoopUnmark(l)
    \/ LoopExit(l)
    \/ LoopTick(l)

\* A mutant: SetTarget also ends the in-flight state.
WithTargetAndFlightReset(m, t) == [m EXCEPT !.target = t, !.inFlight = FALSE]

\* SetTarget, line 223: m.target = t, on the Manager m.
WithTarget(m, t) == [m EXCEPT !.target = t]

\* SetProbeMode, line 230: m.probeMode = mode, on the Manager m.
WithProbeMode(m, mode) == [m EXCEPT !.probeMode = mode]

\* SetTarget, lines 221-225, whoever calls it.
SetTargetCall(t) == mgr' = WithTarget(mgr, t)

\* SetProbeMode, lines 228-232, whoever calls it.
SetProbeModeCall(m) == mgr' = WithProbeMode(mgr, m)

\* SetTarget, lines 221-225.
SetTarget(t) ==
    /\ SetTargetCall(t)
    /\ UNCHANGED <<history, resultCh, loops, cancelled, restart, added, tasks, now, obs, icon, trayVars>>

\* SetProbeMode, lines 228-232.
SetProbeMode(m) ==
    /\ SetProbeModeCall(m)
    /\ UNCHANGED <<history, resultCh, loops, cancelled, restart, added, tasks, now, obs, icon, trayVars>>

\* TrayApp.onReady, tray.go lines 107-111: the consumer takes a sample off Results().
Consume ==
    /\ resultCh # <<>>
    /\ resultCh' = Tail(resultCh)
    /\ UNCHANGED <<mgr, history, loops, cancelled, restart, added, tasks, now, obs, icon, trayVars>>

NextManager ==
    \/ AppStart
    \/ Stop
    \/ RestartStop
    \/ RestartStart
    \/ \E l \in LoopIds : LoopStep(l)
    \/ Consume

SpecManager == InitManager /\ [][NextManager]_vars

(***************************************************************************)
(* SpecRestart: SpecManager with Restart called at a quiet moment and its  *)
(* sleep long enough for every loop to run until it has to wait: Restart   *)
(* is entered, and its sleep returns, only when each loop is blocked in a  *)
(* probe that does not end on its own account, or waits at its select for  *)
(* a tick with its context live, or has exited.                            *)
(***************************************************************************)
\* Loop l can take no step until a probe answers, a tick comes or Stop is called.
Waiting(l) ==
    \/ ~Alive(l)
    \/ loops[l].pc = "probe" /\ ~(loops[l].mode = "HTTP" /\ CtxDone(l))
    \/ loops[l].pc = "select" /\ ~CtxDone(l)

RestartStopSettled ==
    /\ \A l \in LoopIds : Waiting(l)
    /\ RestartStop

RestartStartSettled ==
    /\ \A l \in LoopIds : Waiting(l)
    /\ RestartStart

NextRestart ==
    \/ AppStart
    \/ RestartStopSettled
    \/ RestartStartSettled
    \/ \E l \in LoopIds : LoopStep(l)
    \/ Consume

SpecRestart == InitManager /\ [][NextRestart]_vars

(***************************************************************************)
(* SpecConfig: one loop, started once, while SetTarget and SetProbeMode    *)
(* are called.                                                             *)
(***************************************************************************)
NextConfig ==
    \/ AppStart
    \/ \E t \in Targets : SetTarget(t)
    \/ \E m \in Modes : SetProbeMode(m)
    \/ Stop
    \/ \E l \in LoopIds : LoopStep(l)
    \/ Consume

SpecConfig == InitManager /\ [][NextConfig]_vars

(***************************************************************************)
(* SpecFrame: SpecConfig with Restart, the 100 ms of its sleep being       *)
(* enough for the cancelled loop to exit before Start launches the next.   *)
(***************************************************************************)
RestartStartAfterExit ==
    /\ \A l \in LoopIds : ~Alive(l)
    /\ RestartStart

NextFrame ==
    \/ AppStart
    \/ \E t \in Targets : SetTarget(t)
    \/ \E m \in Modes : SetProbeMode(m)
    \/ Stop
    \/ RestartStop
    \/ RestartStartAfterExit
    \/ \E l \in LoopIds : LoopStep(l)
    \/ Consume

SpecFrame == InitManager /\ [][NextFrame]_vars

(***************************************************************************)
(* SpecLoopFair: the loop of a Manager started once, scheduled fairly,     *)
(* while Stop and SetProbeMode are called and Results() is received from.  *)
(* A loop that can take a step takes one (weak fairness), and Go's select, *)
(* which picks among its ready cases at random, does not pass over         *)
(* ctx.Done() for ever when it is ready again and again (strong fairness). *)
(* Nothing obliges the callers or the consumer to act.                     *)
(***************************************************************************)
NextLoopFair ==
    \/ AppStart
    \/ Stop
    \/ \E m \in Modes : SetProbeMode(m)
    \/ \E l \in LoopIds : LoopStep(l)
    \/ Consume

FairLoops ==
    \A l \in LoopIds : WF_vars(LoopStep(l)) /\ SF_vars(LoopExit(l))

SpecLoopFair == InitManager /\ [][NextLoopFair]_vars /\ FairLoops

(***************************************************************************)
(* SpecInFlight: SpecRestart with a clock and a caller of IsInFlight.  The *)
(* clock advances at any moment, up to MaxNow; time.Now in markInFlight    *)
(* and time.Since in IsInFlight read it.                                   *)
(***************************************************************************)
\* Time passes.
ClockTick ==
    /\ now < MaxNow
    /\ now' = now + 1
    /\ UNCHANGED <<history, added, tasks, mgr, resultCh, loops, cancelled, restart, obs, icon, trayVars>>

\* A call of IsInFlight (tray.go, the icon refresh), lines 241-248, under the
\* read lock: obs keeps what it returned and what the call before returned.
IsInFlightCall ==
    /\ obs' = [cur     |-> IsInFlight(mgr, now),
               prev    |-> obs.cur,
               held    |-> obs.cur.flag /\ obs.holding,
               holding |-> mgr.inFlight]
    /\ UNCHANGED <<history, added, tasks, mgr, resultCh, loops, cancelled, restart, now, icon, trayVars>>

\* Restart as the tray's handlers call it (tray.go 168-203): onReady has
\* called Start before the handlers run.
HandlerRestartStop ==
    /\ mgr.cancel # 0
    /\ RestartStopSettled

NextInFlight ==
    \/ AppStart
    \/ HandlerRestartStop
    \/ RestartStartSettled
    \/ \E l \in LoopIds : LoopStep(l)
    \/ ClockTick
    \/ IsInFlightCall

SpecInFlight == InitManager /\ [][NextInFlight]_vars

(***************************************************************************)
(* The icon (src/internal/icon/icon.go): BorderColorFor and Render.  A     *)
(* Sample's Latency is in milliseconds, as s.Latency.Microseconds()/1000.0 *)
(* is for a latency of whole milliseconds.  The float64 arithmetic is done *)
(* on exact fractions num/den; on these inputs no value comes within 1/600 *)
(* of a rounding boundary without lying on it, out of reach of float64's   *)
(* rounding error.                                                         *)
(***************************************************************************)
width == 24
height == 24
padX == 3
padY == 4

colNeutral == "colNeutral"
colYellow == "colYellow"
colOrange == "colOrange"
colRed == "colRed"

\* int(x + 0.5), lines 138 (and README.md 150), for x = num / den >= 0.
RoundHalfUp(num, den) == (2 * num + den) \div (2 * den)

\* BorderColorFor, lines 33-40: the colour of the age of the probe in flight.
ColorOfAge(ageMs) ==
    IF ageMs >= 300 THEN colOrange
    ELSE IF ageMs >= 100 THEN colYellow
    ELSE colNeutral

\* BorderColorFor, lines 63-71: the colour of the average sum / count.
ColorOfAverage(sum, count) ==
    IF sum >= 300 * count THEN colOrange
    ELSE IF sum >= 100 * count THEN colYellow
    ELSE colNeutral

\* BorderColorFor, lines 46-56: sumMs and countOK over the samples of last.
RECURSIVE SumMs(_)
SumMs(last) ==
    IF last = <<>> THEN 0
    ELSE (IF Head(last).Failed THEN 0 ELSE Head(last).Latency) + SumMs(Tail(last))

RECURSIVE CountOK(_)
CountOK(last) ==
    IF last = <<>> THEN 0
    ELSE (IF Head(last).Failed THEN 0 ELSE 1) + CountOK(Tail(last))

AnyFail(last) == \E i \in 1 .. Len(last) : last[i].Failed

\* BorderColorFor, lines 31-72.
BorderColorFor(h, inFlight, ageMs) ==
    IF inFlight
    THEN ColorOfAge(ageMs)
    ELSE LET last == Latest(h, 5)
         IN  IF Len(last) = 0 THEN colNeutral
             ELSE IF AnyFail(last) THEN colRed
             ELSE IF CountOK(last) = 0 THEN colNeutral
             ELSE ColorOfAverage(SumMs(last), CountOK(last))

\* Render, lines 88-97: maxMs over the whole snapshot.
RECURSIVE MaxMs(_)
MaxMs(series) ==
    IF series = <<>> THEN 300
    ELSE IF Head(series).Failed THEN MaxMs(Tail(series))
    ELSE Max(Head(series).Latency, MaxMs(Tail(series)))

\* Render, lines 109-112: the last 20 samples are plotted.
Plotted(series) ==
    IF Len(series) > 20 THEN SubSeq(series, Len(series) - 20 + 1, Len(series)) ELSE series

\* Render, lines 126-135: y as the fraction num / den.
PlotY(s, maxMs) ==
    IF s.Failed
    THEN [num |-> 0, den |-> 1]
    ELSE [num |-> (height - 2 * padY) * Min(s.Latency, maxMs), den |-> maxMs]

\* Render, lines 114-117 and 136: x of the i-th of n points (i from 0), rounded.
PlotX(i, n) ==
    IF n > 1
    THEN RoundHalfUp(padX * (n - 1) + i * (width - 2 * padX), n - 1)
    ELSE RoundHalfUp(padX, 1)

\* Render, lines 124-139: the point of the i-th of the n plotted samples.
Point(s, i, n, maxMs) ==
    LET y == PlotY(s, maxMs)
    IN  [X |-> PlotX(i, n),
         Y |-> RoundHalfUp((height - padY) * y.den - y.num, y.den)]

\* Render, lines 76-163: what it draws from the History h: the points of the
\* sparkline, oldest first, the centres of the red dots of the failed samples
\* (lines 149-154), and the colour of the border (lines 157-160).
Render(h, inFlight, ageMs) ==
    LET series == Plotted(Snapshot(h))
        maxMs == MaxMs(Snapshot(h))
        n == Len(series)
        points == [i \in 1 .. n |-> Point(series[i], i - 1, n, maxMs)]
    IN  [rendered |-> TRUE, by |-> "icon.go", inFlight |-> inFlight, ageMs |-> ageMs,
         series  |-> series,
         maxMs   |-> maxMs,
         points  |-> points,
         dots    |-> [i \in 1 .. n |->
                        IF series[i].Failed THEN <<[X |-> points[i].X, Y |-> padY]>> ELSE <<>>],
         border  |-> BorderColorFor(h, inFlight, ageMs)]

(***************************************************************************)
(* The other Render of the sources (src/README.md 63-): the monochrome     *)
(* template icon that tray.go's updateIcon calls, with fixed bands and its *)
(* own paddings (padX and padY there, tplPadX and tplPadY here).           *)
(***************************************************************************)
tplPadX == 0
tplPadY == 2
padBottom == 2

\* A mutant: the last band is not capped at plotH.
TemplateYNoCap(s) ==
    LET plotH == height - tplPadY - padBottom
        ms == s.Latency
    IN  IF s.Failed THEN [num |-> 0, den |-> 1]
        ELSE IF ms < 100 THEN [num |-> plotH * ms, den |-> 300]
        ELSE IF ms < 200 THEN [num |-> plotH * 100 + plotH * (ms - 100), den |-> 300]
        ELSE [num |-> 2 * plotH * 100 + plotH * (ms - 200), den |-> 300]

\* A mutant: the middle band starts at the bottom of the plot.
TemplateYNoOffset(s) ==
    LET plotH == height - tplPadY - padBottom
        ms == s.Latency
    IN  IF s.Failed THEN [num |-> 0, den |-> 1]
        ELSE IF ms < 100 THEN [num |-> plotH * ms, den |-> 300]
        ELSE IF ms < 200 THEN [num |-> plotH * (ms - 100), den |-> 300]
        ELSE [num |-> 2 * plotH * 100 + plotH * Min(ms - 200, 100), den |-> 300]

\* README.md 122-147: y as the fraction num / den, bandHeight being plotH / 3
\* and each ratio a number of milliseconds over 100.
TemplateY(s) ==
    LET plotH == height - tplPadY - padBottom
        ms == s.Latency
    IN  IF s.Failed THEN [num |-> 0, den |-> 1]
        ELSE IF ms < 100 THEN [num |-> plotH * ms, den |-> 300]
        ELSE IF ms < 200 THEN [num |-> plotH * 100 + plotH * (ms - 100), den |-> 300]
        ELSE [num |-> 2 * plotH * 100 + plotH * Min(ms - 200, 100), den |-> 300]

\* README.md 112-115 and 148: x of the i-th of n points (i from 0), rounded.
TemplateX(i, n) ==
    IF n > 1
    THEN RoundHalfUp(tplPadX * (n - 1) + i * (width - 2 * tplPadX), n - 1)
    ELSE RoundHalfUp(tplPadX, 1)

\* README.md 119-151: the point of the i-th of the n plotted samples.
TemplatePoint(s, i, n) ==
    LET y == TemplateY(s)
        plotH == height - tplPadY - padBottom
    IN  [X |-> TemplateX(i, n),
         Y |-> RoundHalfUp((tplPadY + plotH) * y.den - y.num, y.den)]

\* README.md 88-167: what this Render draws: the points, and the centres of
\* the dots, those of the failed samples (159-164) or, of an empty History,
\* the one in the middle (93-97).  inFlightAge is not used.
RenderTemplate(h, inFlightAge) ==
    LET series == Plotted(Snapshot(h))
        n == Len(series)
        points == [i \in 1 .. n |-> TemplatePoint(series[i], i - 1, n)]
    IN  [rendered |-> TRUE, by |-> "README.md",
         series  |-> series,
         points  |-> points,
         dots    |-> IF n = 0
                     THEN <<<<[X |-> width \div 2, Y |-> height \div 2]>>>>
                     ELSE [i \in 1 .. n |->
                             IF series[i].Failed
                             THEN <<[X |-> points[i].X, Y |-> tplPadY + 2]>> ELSE <<>>]]

(***************************************************************************)
(* SpecIcon: a History filled by Add, sample after sample, and then        *)
(* rendered, by either Render, whatever the in-flight state: the Historys  *)
(* that Render can be handed, and what it draws of each.                   *)
(***************************************************************************)
\* Add is called at most MaxIconAdds times.
MaxIconAdds == 5

\* The capacity of the History rendered (main.go hands 60 to NewManager): here
\* one that MaxIconAdds samples overflow, so that Render reads a buffer that
\* has wrapped.
IconCapacities == {4}

\* The latencies of the samples rendered, on both sides of 100 ms, at 300 ms
\* and beyond.
IconLatencies == {90, 110, 300, 600}

IconSamples ==
    {Sample(ms, FALSE, "ok") : ms \in IconLatencies} \cup {Sample(0, TRUE, ErrTimeout)}

\* The ages of the probe in flight handed to Render.
IconAges == {0, 100, 300}

InitIcon ==
    /\ \E cap \in IconCapacities : history = NewHistory(cap)
    /\ added = <<>>
    /\ tasks = [t \in HTasks |-> IdleTask]
    /\ mgr = NewManager("1.1.1.1", "ICMP")
    /\ resultCh = <<>>
    /\ loops = [l \in LoopIds |-> NoLoop]
    /\ cancelled = {}
    /\ restart = "idle"
    /\ now = 0
    /\ obs = NoCalls
    /\ icon = NoIcon
    /\ handlers = NoHandlers
    /\ cfg = NoConfig
    /\ procs = NoProcs

\* A probe cycle has handed sample s to History.Add (lines 128-136).
IconAdd(s) ==
    /\ ~icon.rendered
    /\ Len(added) < MaxIconAdds
    /\ history' = AddBody(history, s)
    /\ added' = Append(added, s)
    /\ UNCHANGED <<tasks, mgr, resultCh, loops, cancelled, restart, now, obs, icon, trayVars>>

\* Render of icon.go is called, once in a behaviour.
IconRender(inFlight, ageMs) ==
    /\ ~icon.rendered
    /\ icon' = Render(history, inFlight, ageMs)
    /\ UNCHANGED <<history, added, tasks, mgr, resultCh, loops, cancelled, restart, now, obs, trayVars>>

\* Render of README.md is called (tray.go 230-231, updateIcon), once in a behaviour.
IconRenderTemplate(inFlightAge) ==
    /\ ~icon.rendered
    /\ icon' = RenderTemplate(history, inFlightAge)
    /\ UNCHANGED <<history, added, tasks, mgr, resultCh, loops, cancelled, restart, now, obs, trayVars>>

NextIcon ==
    \/ \E s \in IconSamples : IconAdd(s)
    \/ \E inFlight \in BOOLEAN, ageMs \in IconAges : IconRender(inFlight, ageMs)
    \/ \E inFlightAge \in IconAges : IconRenderTemplate(inFlightAge)

SpecIcon == InitIcon /\ [][NextIcon]_vars

(***************************************************************************)
(* SpecTray: the Manager driven by the tray (src/internal/ui/tray.go).     *)
(* onReady calls Start and launches one goroutine per menu item; each runs *)
(* its handler click after click, and the three run side by side.  A       *)
(* handler's Restart is Stop, a sleep that may end at any moment, Start.   *)
(***************************************************************************)
HandlerIds == {"target", "icmp", "http"}

\* The handlers get past their early return at most MaxClicks times in all.
MaxClicks == 2

\* A handler waiting for its first click; new is its newTarget or mode, and
\* runs counts the times it got past its early return.
IdleHandler == [pc |-> "idle", new |-> "", runs |-> 0]

\* The handler hr has returned.
Returned(hr) == [IdleHandler EXCEPT !.runs = hr.runs]

RECURSIVE SumRuns(_)
SumRuns(hs) ==
    IF hs = {} THEN 0
    ELSE LET h == CHOOSE x \in hs : TRUE IN handlers[h].runs + SumRuns(hs \ {h})

\* A click can still be handled.
ClicksLeft == SumRuns(HandlerIds) < MaxClicks

\* main (src/unnamed/part_000, 13-30) and NewTrayApp: the Config that Load
\* returned is handed to NewManager and to the TrayApp.
InitTray ==
    /\ \E cap \in ManagerCapacities : history = NewHistory(cap)
    /\ added = <<>>
    /\ tasks = [t \in HTasks |-> IdleTask]
    /\ \E mode \in Modes :
         /\ cfg = [Target |-> "1.1.1.1", ProbeMode |-> mode]
         /\ mgr = NewManager("1.1.1.1", mode)
    /\ resultCh = <<>>
    /\ loops = [l \in LoopIds |-> NoLoop]
    /\ cancelled = {}
    /\ restart = "idle"
    /\ now = 0
    /\ obs = NoCalls
    /\ icon = NoIcon
    /\ handlers = [h \in HandlerIds |-> IdleHandler]
    /\ procs = NoProcs

\* handleChangeTarget, lines 169-175: the dialog returns newTarget; unless it
\* is empty or the current target, a.cfg.Target = newTarget.
HandleChangeTarget(newTarget) ==
    /\ mgr.cancel # 0
    /\ handlers["target"].pc = "idle"
    /\ IF newTarget = "" \/ newTarget = mgr.target
       THEN UNCHANGED <<handlers, cfg>>
       ELSE /\ ClicksLeft
            /\ cfg' = [cfg EXCEPT !.Target = newTarget]
            /\ handlers' = [handlers EXCEPT !["target"] =
                   [pc |-> "save", new |-> newTarget, runs |-> @.runs + 1]]
    /\ UNCHANGED <<history, added, tasks, mgr, resultCh, loops, cancelled, restart, now, obs,
                   icon, procs>>

\* The mode that handler h asks for (tray.go 85, 92).
ModeOf(h) == IF h = "icmp" THEN "ICMP" ELSE "HTTP"

\* handleChangeMode, lines 188-192: unless the Manager is in this mode
\* already, a.cfg.ProbeMode = mode.
HandleChangeMode(h) ==
    /\ mgr.cancel # 0
    /\ h \in {"icmp", "http"}
    /\ handlers[h].pc = "idle"
    /\ IF mgr.probeMode = ModeOf(h)
       THEN UNCHANGED <<handlers, cfg>>
       ELSE /\ ClicksLeft
            /\ cfg' = [cfg EXCEPT !.ProbeMode = ModeOf(h)]
            /\ handlers' = [handlers EXCEPT ![h] =
                   [pc |-> "save", new |-> ModeOf(h), runs |-> @.runs + 1]]
    /\ UNCHANGED <<history, added, tasks, mgr, resultCh, loops, cancelled, restart, now, obs,
                   icon, procs>>

\* Lines 176-179 and 193-196: a.cfg.Save() returns nil (ok) or an error, on
\* which the handler returns.
HandlerSave(h, ok) ==
    /\ handlers[h].pc = "save"
    /\ handlers' = [handlers EXCEPT ![h] = IF ok THEN [@ EXCEPT !.pc = "set"] ELSE Returned(@)]
    /\ UNCHANGED <<history, added, tasks, mgr, resultCh, loops, cancelled, restart, now, obs,
                   icon, cfg, procs>>

\* Lines 181 and 198: a.mgr.SetTarget(newTarget), a.mgr.SetProbeMode(mode).
HandlerSet(h) ==
    /\ handlers[h].pc = "set"
    /\ IF h = "target" THEN SetTargetCall(handlers[h].new) ELSE SetProbeModeCall(handlers[h].new)
    /\ handlers' = [handlers EXCEPT ![h].pc = "stop"]
    /\ UNCHANGED <<history, added, tasks, resultCh, loops, cancelled, restart, now, obs,
                   icon, cfg, procs>>

\* Lines 182 and 199, Restart, line 236: m.Stop().
TrayRestartStop(h) ==
    /\ handlers[h].pc = "stop"
    /\ StopCall
    /\ handlers' = [handlers EXCEPT ![h].pc = "sleep"]
    /\ UNCHANGED <<restart, added, tasks, now, obs, icon, cfg, procs>>

\* Restart, lines 237-238: the sleep is over, m.Start(); the handler returns.
TrayRestartStart(h) ==
    /\ handlers[h].pc = "sleep"
    /\ StartCall
    /\ handlers' = [handlers EXCEPT ![h] = Returned(@)]
    /\ UNCHANGED <<restart, added, tasks, now, obs, icon, cfg, procs>>

NextTray ==
    \/ AppStart
    \/ \E t \in Targets \cup {""} : HandleChangeTarget(t)
    \/ \E h \in HandlerIds : HandleChangeMode(h)
    \/ \E h \in HandlerIds, ok \in BOOLEAN : HandlerSave(h, ok)
    \/ \E h \in HandlerIds : HandlerSet(h)
    \/ \E h \in HandlerIds : TrayRestartStop(h)
    \/ \E h \in HandlerIds : TrayRestartStart(h)
    \/ \E l \in LoopIds : LoopStep(l)

SpecTray == InitTray /\ [][NextTray]_vars

(***************************************************************************)
(* SpecLocks: one loop and the tray's goroutines calling the Manager and   *)
(* the History, every Lock, RLock, Unlock and RUnlock a step of its own.   *)
(* Manager.mu is procs.mu, History.mu is history.mu; procs.p[id].held is   *)
(* the set of mutexes the goroutine id has locked and not yet unlocked.    *)
(* A blocked Lock or RLock is a disabled step.  sync.RWMutex also holds    *)
(* back new readers while a writer waits; no goroutine here locks twice,   *)
(* so that policy only reorders the steps below.                           *)
(***************************************************************************)
Callers == {"handler", "poller"}
ProcIds == {"loop"} \cup Callers

\* The calls of tray.go into the Manager and its History: those of a click
\* handler (tray.go 168-203), and those of the goroutines that redraw the
\* icon and the menu (tray.go 106-121, 128-143, 230-231).
CallerOps(c) ==
    IF c = "handler" THEN {"Target", "ProbeMode", "SetTarget", "SetProbeMode"}
    ELSE {"IsInFlight", "Latest", "Snapshot"}

\* The mutex a call locks, and whether it locks it for writing.
LockOf(op) == IF op \in {"Latest", "Snapshot"} THEN "history.mu" ELSE "mu"
Exclusive(op) == op \in {"SetTarget", "SetProbeMode"}

IdleProc == [pc |-> "idle", op |-> "", held |-> {}, sample |-> ZeroSample]

\* sync.RWMutex.
Lock(mu) == [mu EXCEPT !.writer = TRUE]
Unlock(mu) == [mu EXCEPT !.writer = FALSE]
RLock(mu) == [mu EXCEPT !.readers = @ + 1]
RUnlock(mu) == [mu EXCEPT !.readers = @ - 1]

\* The goroutine id at pc, having locked or unlocked the mutex named lock.
Holding(ps, id, lock, pc) == [ps EXCEPT !.p[id].held = @ \cup {lock}, !.p[id].pc = pc]
Released(ps, id, lock, pc) == [ps EXCEPT !.p[id].held = @ \ {lock}, !.p[id].pc = pc]

\* markInFlight, line 258, as if the Unlock were left to the end of doPing.
markInFlightUnlockLate(ps, pc) == [ps EXCEPT !.p["loop"].pc = pc]

\* markInFlight, line 258: m.mu.Unlock().
markInFlightUnlock(ps, pc) == [Released(ps, "loop", "mu", pc) EXCEPT !.mu = Unlock(@)]

InitLocks ==
    /\ \E cap \in ManagerCapacities : history = NewHistory(cap)
    /\ added = <<>>
    /\ tasks = [t \in HTasks |-> IdleTask]
    /\ \E mode \in Modes : mgr = NewManager("1.1.1.1", mode)
    /\ resultCh = <<>>
    /\ loops = [l \in LoopIds |-> NoLoop]
    /\ cancelled = {}
    /\ restart = "idle"
    /\ now = 0
    /\ obs = NoCalls
    /\ icon = NoIcon
    /\ handlers = NoHandlers
    /\ cfg = NoConfig
    /\ procs = [mu |-> NewRWMutex,
                p |-> [id \in ProcIds |-> IF id = "loop" THEN [IdleProc EXCEPT !.pc = "none"]
                                          ELSE IdleProc]]

locksFrame == <<tasks, loops, cancelled, restart, now, obs, icon, handlers, cfg>>

\* Start, lines 261-265: the loop goroutine is launched and enters doPing.
LocksStart ==
    /\ procs.p["loop"].pc = "none"
    /\ mgr' = [mgr EXCEPT !.cancel = 1]
    /\ procs' = [procs EXCEPT !.p["loop"].pc = "markLock"]
    /\ UNCHANGED <<history, resultCh, added, locksFrame>>

\* markInFlight, line 251: m.mu.Lock(), of markInFlight(true) and of the
\* deferred markInFlight(false).
LoopMarkLock ==
    /\ procs.p["loop"].pc \in {"markLock", "unmarkLock"}
    /\ CanLock(procs.mu)
    /\ procs' = [Holding(procs, "loop", "mu",
                         IF procs.p["loop"].pc = "markLock" THEN "markBody" ELSE "unmarkBody")
                   EXCEPT !.mu = Lock(@)]
    /\ UNCHANGED <<mgr, history, resultCh, added, locksFrame>>

\* markInFlight, lines 252-258: the flag is written and the mutex unlocked.
LoopMarkUnlock ==
    /\ procs.p["loop"].pc \in {"markBody", "unmarkBody"}
    /\ mgr' = markInFlight(mgr, procs.p["loop"].pc = "markBody", now)
    /\ procs' = markInFlightUnlock(procs,
                   IF procs.p["loop"].pc = "markBody" THEN "modeRLock" ELSE "select")
    /\ UNCHANGED <<history, resultCh, added, locksFrame>>

\* ProbeMode, line 215, and Target, line 209, called by doPing: m.mu.RLock().
LoopReadRLock ==
    /\ procs.p["loop"].pc \in {"modeRLock", "targetRLock"}
    /\ CanRLock(procs.mu)
    /\ procs' = [Holding(procs, "loop", "mu",
                         IF procs.p["loop"].pc = "modeRLock" THEN "modeRead" ELSE "targetRead")
                   EXCEPT !.mu = RLock(@)]
    /\ UNCHANGED <<mgr, history, resultCh, added, locksFrame>>

\* ProbeMode, lines 216-217, and Target, lines 210-211: the deferred RUnlock;
\* after Target the loop calls the probe.
LoopReadRUnlock ==
    /\ procs.p["loop"].pc \in {"modeRead", "targetRead"}
    /\ procs' = [Released(procs, "loop", "mu",
                          IF procs.p["loop"].pc = "modeRead" THEN "targetRLock" ELSE "probe")
                   EXCEPT !.mu = RUnlock(@)]
    /\ UNCHANGED <<mgr, history, resultCh, added, locksFrame>>

\* Range of a sequence.
Range(s) == {s[i] : i \in 1 .. Len(s)}

\* A mutant: the sample is offered to the channel first and added afterwards.
DoPingNextOfferFirst(pc) ==
    CASE pc = "probe" -> "send"
      [] pc = "send" -> "addLock"
      [] pc = "addBody" -> "unmarkLock"

\* doPing, lines 304-314, and emitFailure, lines 383-387: after the probe
\* comes m.history.Add, after Add the send, after the send the return.
DoPingNext(pc) ==
    CASE pc = "probe" -> "addLock"
      [] pc = "addBody" -> "send"
      [] pc = "send" -> "unmarkLock"

\* doPing, lines 297-307: the probe returns, whenever it does, with a sample
\* or with an error that emitFailure turns into a failed sample.  With
\* distinct, the sample differs from every sample added before, as the
\* Timestamp of a real Sample makes it.
LoopProbe(distinct) ==
    /\ procs.p["loop"].pc = "probe"
    /\ \E lat \in ProbeLatencies, err \in {Nil, ErrTimeout} :
         LET sample == Recorded(Sample(lat, FALSE, ""), err)[1]
         IN  /\ distinct => sample \notin Range(added)
             /\ procs' = [procs EXCEPT !.p["loop"].pc = DoPingNext("probe"),
                                       !.p["loop"].sample = sample]
    /\ UNCHANGED <<mgr, history, resultCh, added, locksFrame>>

\* Add, line 129: h.mu.Lock().
LoopAddLock ==
    /\ procs.p["loop"].pc = "addLock"
    /\ CanLock(history.mu)
    /\ history' = [history EXCEPT !.mu = Lock(@)]
    /\ procs' = Holding(procs, "loop", "history.mu", "addBody")
    /\ UNCHANGED <<mgr, resultCh, added, locksFrame>>

\* Add, lines 130-135, and its deferred h.mu.Unlock().  With log, the ghost
\* added records the sample.
LoopAddUnlock(log) ==
    /\ procs.p["loop"].pc = "addBody"
    /\ history' = [AddBody(history, procs.p["loop"].sample) EXCEPT !.mu = Unlock(@)]
    /\ added' = IF log THEN Append(added, procs.p["loop"].sample) ELSE added
    /\ procs' = Released(procs, "loop", "history.mu", DoPingNext("addBody"))
    /\ UNCHANGED <<mgr, resultCh, locksFrame>>

\* doPing, lines 310-314, and emitFailure, lines 384-387: the non-blocking send.
LoopOffer ==
    /\ procs.p["loop"].pc = "send"
    /\ resultCh' = TrySend(resultCh, procs.p["loop"].sample)
    /\ procs' = [procs EXCEPT !.p["loop"].pc = DoPingNext("send")]
    /\ UNCHANGED <<mgr, history, added, locksFrame>>

\* loop, lines 279-284: a tick, and the next doPing.
LoopNextTick ==
    /\ procs.p["loop"].pc = "select"
    /\ procs' = [procs EXCEPT !.p["loop"].pc = "markLock"]
    /\ UNCHANGED <<mgr, history, resultCh, added, locksFrame>>

\* A goroutine of the tray calls op.
CallerBegin(c, op) ==
    /\ procs.p[c].pc = "idle"
    /\ procs' = [procs EXCEPT !.p[c].pc = "lock", !.p[c].op = op]
    /\ UNCHANGED <<mgr, history, resultCh, added, locksFrame>>

\* The first statement of the call: Lock or RLock of its mutex.
CallerLock(c) ==
    LET op == procs.p[c].op
    IN  /\ procs.p[c].pc = "lock"
        /\ IF LockOf(op) = "mu"
           THEN /\ IF Exclusive(op) THEN CanLock(procs.mu) ELSE CanRLock(procs.mu)
                /\ procs' = [Holding(procs, c, "mu", "body")
                               EXCEPT !.mu = IF Exclusive(op) THEN Lock(@) ELSE RLock(@)]
                /\ UNCHANGED history
           ELSE /\ CanRLock(history.mu)
                /\ history' = [history EXCEPT !.mu = RLock(@)]
                /\ procs' = Holding(procs, c, "history.mu", "body")
        /\ UNCHANGED <<mgr, resultCh, added, locksFrame>>

\* The body of the call and its Unlock or RUnlock: the call returns.
CallerUnlock(c) ==
    LET op == procs.p[c].op
        done == [Released(procs, c, LockOf(op), "idle") EXCEPT !.p[c].op = ""]
    IN  /\ procs.p[c].pc = "body"
        /\ IF LockOf(op) = "mu"
           THEN /\ procs' = [done EXCEPT !.mu = IF Exclusive(op) THEN Unlock(@) ELSE RUnlock(@)]
                /\ UNCHANGED history
           ELSE /\ history' = [history EXCEPT !.mu = RUnlock(@)]
                /\ procs' = done
        /\ CASE op = "SetTarget" -> \E t \in Targets : mgr' = WithTarget(mgr, t)
             [] op = "SetProbeMode" -> \E m \in Modes : mgr' = WithProbeMode(mgr, m)
             [] OTHER -> UNCHANGED mgr
        /\ UNCHANGED <<resultCh, added, locksFrame>>

NextLocks ==
    \/ LocksStart
    \/ LoopMarkLock
    \/ LoopMarkUnlock
    \/ LoopReadRLock
    \/ LoopReadRUnlock
    \/ LoopProbe(FALSE)
    \/ LoopAddLock
    \/ LoopAddUnlock(FALSE)
    \/ LoopOffer
    \/ LoopNextTick
    \/ Consume
    \/ \E c \in Callers : \E op \in CallerOps(c) : CallerBegin(c, op)
    \/ \E c \in Callers : CallerLock(c)
    \/ \E c \in Callers : CallerUnlock(c)

\* Every goroutine that can run does run, and a mutex that becomes free again
\* and again is handed to each goroutine waiting for it.  Nothing is assumed
\* of the probe (it may never return), of the ticker or of the clicks.
FairLocks ==
    /\ SF_vars(LoopMarkLock) /\ WF_vars(LoopMarkUnlock)
    /\ SF_vars(LoopReadRLock) /\ WF_vars(LoopReadRUnlock)
    /\ SF_vars(LoopAddLock) /\ WF_vars(LoopAddUnlock(FALSE))
    /\ WF_vars(LoopOffer)
    /\ \A c \in Callers : SF_vars(CallerLock(c)) /\ WF_vars(CallerUnlock(c))

SpecLocks == InitLocks /\ [][NextLocks]_vars /\ FairLocks

(***************************************************************************)
(* SpecOffer: the loop of SpecLocks and the consumer of Results(), which   *)
(* re-reads the History after every sample it receives (tray.go 106-111,   *)
(* updateMenu 128-143).  The probes return samples that differ from one    *)
(* another, and added is the log of the samples Add has stored.            *)
(***************************************************************************)
OfferProcs == {"loop", "consumer"}

InitOffer ==
    /\ \E cap \in ManagerCapacities : history = NewHistory(cap)
    /\ added = <<>>
    /\ tasks = [t \in HTasks |-> IdleTask]
    /\ \E mode \in Modes : mgr = NewManager("1.1.1.1", mode)
    /\ resultCh = <<>>
    /\ loops = [l \in LoopIds |-> NoLoop]
    /\ cancelled = {}
    /\ restart = "idle"
    /\ now = 0
    /\ obs = NoCalls
    /\ icon = NoIcon
    /\ handlers = NoHandlers
    /\ cfg = NoConfig
    /\ procs = [mu |-> NewRWMutex,
                p |-> [id \in OfferProcs |-> IF id = "loop" THEN [IdleProc EXCEPT !.pc = "none"]
                                            ELSE IdleProc]]

\* tray.go 107-108: the consumer receives a sample from Results() and calls
\* updateMenu, which calls History().Latest.
Receive(c) ==
    /\ procs.p[c].pc = "idle"
    /\ resultCh # <<>>
    /\ resultCh' = Tail(resultCh)
    /\ procs' = [procs EXCEPT !.p[c].pc = "lock", !.p[c].op = "Latest",
                              !.p[c].sample = Head(resultCh)]
    /\ UNCHANGED <<mgr, history, added, locksFrame>>

NextOffer ==
    \/ LocksStart
    \/ LoopMarkLock
    \/ LoopMarkUnlock
    \/ LoopReadRLock
    \/ LoopReadRUnlock
    \/ LoopProbe(TRUE)
    \/ LoopAddLock
    \/ LoopAddUnlock(TRUE)
    \/ LoopOffer
    \/ LoopNextTick
    \/ Receive("consumer")
    \/ CallerLock("consumer")
    \/ CallerUnlock("consumer")

SpecOffer == InitOffer /\ [][NextOffer]_vars

(***************************************************************************)
(* Properties of History, checked under SpecHistory.                       *)
(***************************************************************************)
\* No Add is inside its critical section: the states a reader can observe.
Quiescent == ~history.mu.writer

\* The History that Add calls made one after another, alone, leave behind.
RECURSIVE SeqHistory(_, _)
SeqHistory(log, cap) ==
    IF log = <<>>
    THEN NewHistory(cap)
    ELSE AddBody(SeqHistory(SubSeq(log, 1, Len(log) - 1), cap), log[Len(log)])

\* What the call op(arg) returns on a History taken alone.
SeqResult(h, op, arg) == IF op = "Latest" THEN Latest(h, arg) ELSE Snapshot(h)

\* C1: after N Add calls on a fresh History of capacity C, Snapshot() is exactly
\* the last min(N, C) added samples, oldest first.
C1_SnapshotIsLastAdded ==
    Quiescent =>
        LET snap == Snapshot(history)
            N == Len(added)
            m == Min(N, history.capacity)
        IN  /\ Len(snap) = m
            /\ \A i \in 1 .. m : snap[i] = added[N - m + i]

\* C1's case: capacity 3, four samples added, the first one overwritten.
C1_Witness ==
    /\ Quiescent
    /\ history.capacity = 3
    /\ Len(added) = 4
    /\ added[1] # added[2]
    /\ Snapshot(history) = <<added[2], added[3], added[4]>>

C4_ReadsAreAtomic ==
    \A t \in Readers :
        tasks[t].pc = "returned" =>
            /\ \E j \in tasks[t].lo .. Len(added) :
                   tasks[t].out =
                       SeqResult(SeqHistory(SubSeq(added, 1, j), history.capacity),
                                 tasks[t].op, tasks[t].arg)
            /\ \A i \in 1 .. Len(tasks[t].out) :
                   \E j \in 1 .. Len(added) : tasks[t].out[i] = added[j]

\* C4's case: a Snapshot of a full History of capacity 2 has returned, and an Add
\* that waited for it has stored its sample since.
C4_Witness ==
    \E t \in Readers :
        /\ tasks[t].pc = "returned"
        /\ tasks[t].op = "Snapshot"
        /\ history.capacity = 2
        /\ Len(tasks[t].out) = 2
        /\ tasks[t].lo >= 2
        /\ Len(added) > tasks[t].lo

(***************************************************************************)
(* Properties of the Manager.                                              *)
(***************************************************************************)
\* C5 (SpecManager): once Stop has cancelled a loop's context, that loop begins
\* no new probe cycle, neither at loop entry nor at its select, so that at most
\* the cycle in progress at the moment of Stop appends a Sample.
C5_Original ==
    [][\A l \in LoopIds :
          (l \in cancelled /\ loops[l].pc \in {"entry", "select"}) => loops'[l].pc # "mode"]_vars

\* C6 (SpecRestart): Restart never leaves two polling loops alive at once.
C6_Original == Cardinality({l \in LoopIds : Alive(l)}) <= 1

\* C7 (SpecLoopFair): every loop whose context has been cancelled eventually exits.
C7_CancelledLoopExits ==
    \A l \in LoopIds : l \in cancelled ~> (loops[l].pc = "exited")

\* C7's case: a loop was cancelled, the HTTP probe it still made was aborted
\* by the cancelled context, and the loop has exited.
C7_Witness ==
    \E l \in LoopIds :
        /\ l \in cancelled
        /\ loops[l].pc = "exited"
        /\ Latest(history, 1) = <<Sample(0, TRUE, ErrCanceled)>>

\* C8 (SpecConfig): every probe of a loop uses the target and the mode that were
\* configured when the loop was started, whatever SetTarget and SetProbeMode
\* calls were made since.
C8_Original ==
    \A l \in LoopIds :
        loops[l].pc = "probe" =>
            /\ loops[l].target = loops[l].startTarget
            /\ loops[l].mode = loops[l].startMode

\* C9 (SpecManager): a probe cycle hands exactly one Sample to History.Add: the
\* probe's own, not failed, when the probe returned no error, and otherwise one
\* with failed = true, latency 0 and the non-empty error text as description.
C9_OneSamplePerCycle ==
    \A l \in LoopIds :
        /\ loops[l].pc \in {"send", "unmark"} => loops[l].appended = 1
        /\ loops[l].pc = "send" =>
              IF loops[l].err = Nil
              THEN loops[l].rec = loops[l].sample /\ ~loops[l].rec.Failed
              ELSE /\ loops[l].rec.Failed
                   /\ loops[l].rec.Latency = 0
                   /\ loops[l].rec.Description = loops[l].err
                   /\ loops[l].rec.Description # ""

\* C9's case: a probe failed, and the synthesized sample is the newest in History.
C9_Witness ==
    \E l \in LoopIds :
        /\ loops[l].pc = "send"
        /\ loops[l].err = ErrTimeout
        /\ Latest(history, 1) = <<Sample(0, TRUE, ErrTimeout)>>

\* C10 (SpecManager): a loop has exited only if its own context has been cancelled.
C10_ExitOnlyOnCancel ==
    \A l \in LoopIds : loops[l].pc = "exited" => l \in cancelled

\* C10's case: a loop has exited after Stop, its last probe a failed one.
C10_Witness ==
    \E l \in LoopIds :
        /\ loops[l].pc = "exited"
        /\ l \in cancelled
        /\ history.size = 1
        /\ Latest(history, 1)[1].Failed

\* C11 (SpecManager): the channel never holds more than its buffer, and a cycle
\* that reaches its send with the channel full has appended its Sample to
\* History, can take the send at once, leaves the channel as it was and goes
\* on to the end of the cycle.
C11_DropWhenFull ==
    [][/\ Len(resultCh) <= ResultChCap
       /\ Len(resultCh') <= ResultChCap
       /\ \A l \in LoopIds :
             (loops[l].pc = "send" /\ Len(resultCh) = ResultChCap) =>
                 /\ loops[l].appended = 1
                 /\ ENABLED LoopSend(l)
                 /\ loops'[l].pc # "send" => (resultCh' = resultCh /\ loops'[l].pc = "unmark")]_vars

\* C11's case: the only loop has recorded a successful probe and is past its
\* send, and the full channel still holds just the older, failed sample: the
\* notification of the newest sample in History was dropped.
C11_Witness ==
    \E l \in LoopIds :
        /\ \A k \in LoopIds \ {l} : loops[k].pc = "none"
        /\ loops[l].pc = "unmark"
        /\ Len(resultCh) = ResultChCap
        /\ resultCh[Len(resultCh)] = Sample(0, TRUE, ErrTimeout)
        /\ Latest(history, 1) = <<Sample(20, FALSE, "ok")>>

\* C12 (SpecManager): whenever no loop is running (none started yet, or every
\* loop has exited), the in-flight flag is false: each cycle, however its probe
\* ended, cleared it before the loop came back to its select.
C12_FlagClearedWhenStopped ==
    (\A l \in LoopIds : ~Alive(l)) => ~mgr.inFlight

\* C12's case: after Stop the loop made an HTTP probe that the cancelled
\* context aborted, then exited; no loop is left and the flag is false.
C12_Witness ==
    /\ \A l \in LoopIds : ~Alive(l)
    /\ \E l \in LoopIds : loops[l].pc = "exited"
    /\ Latest(history, 1) = <<Sample(0, TRUE, ErrCanceled)>>
    /\ ~mgr.inFlight

\* C13 (SpecManager): Stop can be called in every state; called before any
\* Start, or again after a Stop, it changes nothing; two calls leave what one
\* call leaves; and a call changes neither History, nor the Manager's fields,
\* nor a loop, nor the channel.
C13_StopIdempotent ==
    /\ [](/\ ENABLED Stop
          /\ LET once == CancelledAfterStop(mgr, cancelled)
             IN  /\ CancelledAfterStop(mgr, once) = once
                 /\ (mgr.cancel = 0 \/ mgr.cancel \in cancelled) => once = cancelled)
    /\ [][(cancelled \subseteq cancelled' /\ cancelled' # cancelled) =>
              UNCHANGED <<history, mgr, loops, resultCh>>]_vars

\* C13's case: Stop has been called while the loop's probe is under way, and
\* the loop still runs: a second Stop finds the context cancelled already.
C13_Witness ==
    /\ mgr.cancel # 0
    /\ mgr.cancel \in cancelled
    /\ loops[mgr.cancel].pc = "probe"

\* C14 (SpecInFlight), the part about what IsInFlight returns: a call that finds
\* the flag false returns (false, 0), and of two successive calls that return
\* true with the flag true all the time between them, the second returns an
\* elapsed duration no smaller than the first.
C14_Original ==
    /\ ~obs.cur.flag => obs.cur.elapsed = 0
    /\ (obs.held /\ obs.cur.flag) => obs.cur.elapsed >= obs.prev.elapsed

\* C20 (SpecInFlight): the in-flight flag is true exactly when some loop is
\* inside a probe cycle, between its markInFlight(true) and its
\* markInFlight(false).
C20_Original ==
    mgr.inFlight <=>
        \E l \in LoopIds : loops[l].pc \in {"mode", "target", "probe", "record", "send", "unmark"}

(***************************************************************************)
(* Properties of the icon, checked under SpecIcon.  The status levels are  *)
(* the border colours: Neutral colNeutral, Elevated colYellow, High        *)
(* colOrange, Failed colRed.                                               *)
(***************************************************************************)
\* The up to 5 most recent samples of what icon.go's Render was handed.
RecentWindow == LastK(icon.series, 5)

\* C15 (SpecIcon): whenever one of the 5 most recent samples is failed, the
\* status is Failed, whatever the in-flight flag and the in-flight age handed
\* to the deriver.
C15_Original ==
    (icon.rendered /\ icon.by = "icon.go") =>
        (AnyFail(RecentWindow) => icon.border = colRed)

\* C16 (SpecIcon): when none of the up to 5 most recent samples is failed, the
\* status is that of their mean latency, Neutral below 100 ms, Elevated from
\* 100 ms and below 300 ms, High from 300 ms; an empty window gives Neutral.
C16_Original ==
    (icon.rendered /\ icon.by = "icon.go" /\ ~AnyFail(RecentWindow)) =>
        LET sum == SumMs(RecentWindow)
            n == Len(RecentWindow)
        IN  icon.border = IF n = 0 \/ sum < 100 * n THEN colNeutral
                          ELSE IF sum < 300 * n THEN colYellow
                          ELSE colOrange

\* The row icon.go's Render plots a latency of ms at, on the icon's own scale.
RowOf(ms) == Point(Sample(ms, FALSE, "ok"), 0, 1, icon.maxMs).Y

\* C17 (SpecIcon): every failed sample has its plotted point and its marker in
\* the row of the worst latency, the one on which the highest latency of the
\* scale is plotted, and not in the row of a latency of 0.
C17_Original ==
    (icon.rendered /\ icon.by = "icon.go") =>
        \A i \in 1 .. Len(icon.series) :
            icon.series[i].Failed =>
                /\ icon.dots[i] # <<>>
                /\ icon.dots[i][1].Y = RowOf(icon.maxMs)
                /\ icon.points[i].Y = RowOf(icon.maxMs)
                /\ icon.points[i].Y # RowOf(0)

\* Latencies on both sides of the boundaries of the bands and of the scale,
\* in increasing order.
BandLatencies == <<0, 1, 50, 99, 100, 101, 150, 199, 200, 201, 250, 299, 300, 301, 600, 601>>

\* The row the Render that drew icon plots a latency of ms at.
RowAt(ms) ==
    IF icon.by = "icon.go" THEN RowOf(ms) ELSE TemplatePoint(Sample(ms, FALSE, "ok"), 0, 1).Y

\* C18 (SpecIcon): the rows of the icon run from the top, where the highest
\* latency is plotted, to the bottom.  Of two non-failed samples plotted in one
\* icon, the one with the higher latency is never plotted below the other; and
\* on the scale of any icon drawn, a higher latency is never plotted below a
\* lower one, the latencies next to 100, 200 and 300 ms included.
C18_Monotonic ==
    icon.rendered =>
        /\ \A i, j \in 1 .. Len(icon.series) :
               (/\ ~icon.series[i].Failed
                /\ ~icon.series[j].Failed
                /\ icon.series[i].Latency <= icon.series[j].Latency)
                   => icon.points[j].Y <= icon.points[i].Y
        /\ \A k \in 1 .. Len(BandLatencies) - 1 :
               RowAt(BandLatencies[k + 1]) <= RowAt(BandLatencies[k])

\* C18's case: latencies of 90, 110 and 300 ms, in the first band, the second
\* and at the top of the third, plotted by README.md's Render at rows 16, 15, 2.
C18_Witness ==
    /\ icon.rendered
    /\ icon.by = "README.md"
    /\ Len(icon.series) = 3
    /\ [i \in 1 .. 3 |-> icon.series[i].Latency] = <<90, 110, 300>>
    /\ \A i \in 1 .. 3 : ~icon.series[i].Failed
    /\ [i \in 1 .. 3 |-> icon.points[i].Y] = <<16, 15, 2>>

\* The top and the bottom row of the drawable range of the Render that drew icon.
TopRow == IF icon.by = "icon.go" THEN padY ELSE tplPadY
BottomRow == IF icon.by = "icon.go" THEN height - padY ELSE height - padBottom

\* C19 as stated: every non-failed sample is plotted between the top and the
\* bottom padding row, and every latency of 300 ms or more at one and the same
\* extreme row.
C19_Original ==
    icon.rendered =>
        \A i \in 1 .. Len(icon.series) :
            ~icon.series[i].Failed =>
                /\ TopRow <= icon.points[i].Y
                /\ icon.points[i].Y <= BottomRow
                /\ icon.series[i].Latency >= 300 => icon.points[i].Y = TopRow

\* The ceiling of the scale of the Render that drew icon: icon.go's maxMs, the
\* highest latency of the snapshot and at least 300 ms; 300 ms in README.md.
Ceiling == IF icon.by = "icon.go" THEN icon.maxMs ELSE 300

\* C19 as amended: every non-failed sample, and on the icon's scale every
\* latency however large, is plotted between the top and the bottom padding
\* row, and every latency at or above the ceiling of the scale at the top row.
C19_Clamped ==
    icon.rendered =>
        /\ \A i \in 1 .. Len(icon.series) :
               ~icon.series[i].Failed =>
                   /\ TopRow <= icon.points[i].Y
                   /\ icon.points[i].Y <= BottomRow
                   /\ icon.series[i].Latency >= Ceiling => icon.points[i].Y = TopRow
        /\ \A k \in 1 .. Len(BandLatencies) :
               /\ TopRow <= RowAt(BandLatencies[k])
               /\ RowAt(BandLatencies[k]) <= BottomRow
               /\ BandLatencies[k] >= Ceiling => RowAt(BandLatencies[k]) = TopRow

\* C19's case: icon.go's Render of samples of 300 and 600 ms: the scale's
\* ceiling is 600 ms, plotted at the top row 4, and 300 ms is plotted at row 12.
C19_Witness ==
    /\ icon.rendered
    /\ icon.by = "icon.go"
    /\ icon.maxMs = 600
    /\ Len(icon.series) = 2
    /\ [i \in 1 .. 2 |-> icon.series[i].Latency] = <<300, 600>>
    /\ [i \in 1 .. 2 |-> icon.points[i].Y] = <<12, 4>>


(***************************************************************************)
(* Properties of the tray handlers, checked under SpecTray.                *)
(***************************************************************************)

\* C21 (as stated): no loop is leaked. Every loop that is still alive has
\* either been cancelled already or is the one the Manager's current cancel
\* function cancels, so a final Stop() reaches every loop ever launched.
C21_Original ==
    \A l \in LoopIds : Alive(l) => (l \in cancelled \/ mgr.cancel = l)


\* C27 (as stated): whenever no handler is in the middle of a run, whether
\* the Save of the last run succeeded or failed, the in-memory configuration
\* and the Manager agree on the target and on the probe mode.
C27_Original ==
    (\A h \in HandlerIds : handlers[h].pc = "idle")
        => (cfg.Target = mgr.target /\ cfg.ProbeMode = mgr.probeMode)


(***************************************************************************)
(* Properties of the locks, checked under SpecLocks.                       *)
(***************************************************************************)
\* The loop is blocked inside the ICMP or HTTP probe.
InProbe == procs.p["loop"].pc = "probe"

\* No goroutine waits for a mutex while it holds one.
NoHoldAndWait ==
    \A id \in ProcIds :
        procs.p[id].pc \in {"lock", "markLock", "unmarkLock", "modeRLock", "targetRLock", "addLock"}
            => procs.p[id].held = {}

\* C22: while the loop is inside the probe it holds neither Manager.mu nor
\* History.mu, and both mutexes are as the callers alone left them; no
\* goroutine ever waits for a mutex while holding one, so no deadlock can
\* form; and every call of IsInFlight, Target, ProbeMode, SetTarget,
\* SetProbeMode, Latest or Snapshot that has begun returns, even when the
\* probe never does.
C22_NoLockAcrossProbe ==
    /\ [](InProbe => procs.p["loop"].held = {})
    /\ [](InProbe /\ (\A c \in Callers : procs.p[c].pc # "body")
            => procs.mu = NewRWMutex /\ history.mu = NewRWMutex)
    /\ []NoHoldAndWait
    /\ \A c \in Callers : (procs.p[c].pc # "idle") ~> (procs.p[c].pc = "idle")

\* The loop is inside the probe while one caller writes under Manager.mu and
\* the other reads the History.
C22_Witness ==
    /\ InProbe
    /\ procs.p["handler"].pc = "body" /\ procs.p["handler"].op = "SetTarget"
    /\ procs.p["poller"].pc = "body" /\ procs.p["poller"].op = "Snapshot"
    /\ history.size > 0


(***************************************************************************)
(* Properties of the loop's cycles, checked under SpecRestart.             *)
(***************************************************************************)
\* The places of a probe cycle (one call of doPing), in the order they are passed.
CycleOrder == <<"mode", "target", "probe", "record", "send", "unmark">>

\* The place that follows pc when the loop moves on.
NextPlace(pc) ==
    IF pc = "entry" THEN {"mode"}
    ELSE IF pc = "select" THEN {"mode", "exited"}
    ELSE IF pc = "unmark" THEN {"select"}
    ELSE IF pc \in {"none", "exited"} THEN {"entry"}
    ELSE {CycleOrder[i + 1] : i \in {j \in 1 .. Len(CycleOrder) - 1 : CycleOrder[j] = pc}}

\* C23: the first step of a launched loop begins a probe cycle (it marks the
\* Manager in flight and goes on to the probe without passing the select);
\* any later cycle of a loop begins from its select, by the ticker case; and
\* a loop's cycles are sequential: a cycle under way passes its places in
\* order up to its end before the loop is at the select again.
C23_ImmediateThenTicks ==
    [][\A l \in LoopIds :
          LET a == loops[l].pc
              b == loops'[l].pc
          IN  b # a =>
                /\ b \in NextPlace(a)
                /\ a = "entry" => (b = "mode" /\ mgr'.inFlight)
                /\ b = "mode" => (a \in {"entry", "select"} /\ mgr'.inFlight)]_vars

\* The only loop ever launched is inside the probe of a later cycle: a sample
\* of an earlier cycle of its own is in the History.
C23_Witness ==
    /\ loops[1].pc = "probe"
    /\ \A l \in LoopIds \ {1} : loops[l].pc = "none"
    /\ history.size > 0


(***************************************************************************)
(* The ring invariants of History, checked under SpecHistory.              *)
(***************************************************************************)
\* The slot of the oldest retained sample of a full History after the Adds
\* counted in added: Add number k (from 0) goes to slot k mod capacity.
OldestSlot == Len(added) % history.capacity

\* C24: the capacity never changes; size and nextIdx stay within 0..capacity
\* and 0..capacity-1; whenever no Add is inside its critical section, size is
\* min(number of Adds, capacity) and nextIdx is (number of Adds) mod
\* capacity; and an Add writes one slot only, on a full History the slot of
\* the oldest retained sample, leaving every other slot as it was.
C24_RingInvariants ==
    /\ [][/\ history'.capacity = history.capacity
          /\ DOMAIN history'.buffer = 0 .. history.capacity - 1]_vars
    /\ [](/\ 0 <= history.size /\ history.size <= history.capacity
          /\ 0 <= history.nextIdx /\ history.nextIdx < history.capacity)
    /\ [](Quiescent =>
            /\ history.size = Min(Len(added), history.capacity)
            /\ history.nextIdx = Len(added) % history.capacity)
    /\ [][history'.buffer # history.buffer =>
            \E i \in DOMAIN history.buffer :
                /\ \A j \in DOMAIN history.buffer \ {i} : history'.buffer[j] = history.buffer[j]
                /\ history'.buffer[i] = added'[Len(added')]
                /\ history.size = history.capacity => i = OldestSlot]_vars

\* A full History of capacity 2 has had its oldest sample overwritten by a
\* third, different one, and the sample next to it is still there.
C24_Witness ==
    /\ Quiescent
    /\ history.capacity = 2
    /\ Len(added) = 3
    /\ added[1] # added[3]
    /\ history.buffer[0] = added[3]
    /\ history.buffer[1] = added[2]


(***************************************************************************)
(* Properties of the result channel, checked under SpecOffer.              *)
(***************************************************************************)
\* The samples the consumer can have in hand: those waiting in the channel
\* and the one it received last.
Offered == Range(resultCh) \cup ({procs.p["consumer"].sample} \ {ZeroSample})

\* C25: every sample that is in the result channel or has been received from
\* it was added to the History before; and whenever the History can be read
\* (no Add holds its lock), Latest(1) is that sample or one added after it.
C25_AddedBeforeOffered ==
    \A s \in Offered :
        \E i \in 1 .. Len(added) :
            /\ added[i] = s
            /\ CanRLock(history.mu) =>
                 \E j \in i .. Len(added) : Latest(history, 1) = <<added[j]>>

\* The consumer, having received the first sample, re-reads the History
\* under its read lock and finds a sample added after the one it received.
C25_Witness ==
    /\ procs.p["consumer"].pc = "body"
    /\ Len(added) = 2
    /\ procs.p["consumer"].sample = added[1]
    /\ Latest(history, 1) = <<added[2]>>
    /\ added[1] # added[2]


(***************************************************************************)
(* Frame properties of the Manager's calls, checked under SpecFrame.       *)
(***************************************************************************)
\* C26: a step that changes the target or the probe mode (a SetTarget or a
\* SetProbeMode) changes one of the two and nothing else: no loop is
\* launched, cancelled or moved, and the History, the in-flight flag and
\* start instant, the cancel function and the result channel stay as they
\* were; and a step of Start, Stop or Restart (one that changes the cancel
\* function, the cancelled contexts or Restart's place) leaves the History
\* as it was.
C26_FrameEffects ==
    [][/\ (mgr'.target # mgr.target \/ mgr'.probeMode # mgr.probeMode) =>
            /\ mgr'.target = mgr.target \/ mgr'.probeMode = mgr.probeMode
            /\ mgr'.inFlight = mgr.inFlight
            /\ mgr'.inFlightStart = mgr.inFlightStart
            /\ mgr'.cancel = mgr.cancel
            /\ UNCHANGED <<history, resultCh, loops, cancelled, restart>>
       /\ (mgr'.cancel # mgr.cancel \/ cancelled' # cancelled \/ restart' # restart) =>
            history' = history]_vars

\* The target was changed while a loop started on the old target is inside a
\* probe, Restart has cancelled that loop and sleeps, and the samples of the
\* earlier cycles are still in the History and in the channel.
C26_Witness ==
    /\ mgr.target = "8.8.8.8"
    /\ mgr.inFlight
    /\ restart = "sleep"
    /\ history.size > 0
    /\ resultCh # <<>>
    /\ \E l \in LoopIds :
         loops[l].pc = "probe" /\ loops[l].startTarget = "1.1.1.1" /\ l \in cancelled

====
